---- MODULE Spec2Model ----
(***************************************************************************)
(* Dust: the tree-walking evaluator (interpreter.py), its environment and  *)
(* symbol model (env.py), the operators (utils.py) and the driver that     *)
(* evaluates one top-level item at a time (repl.py).                       *)
(*                                                                         *)
(* Python objects that are shared by reference live in two heaps: syms     *)
(* (Symbol instances) and envs (Environment instances).  A value is a      *)
(* tagged record; a reference to a Symbol is [t |-> "sym", id |-> i].      *)
(* Every eval_X handler is an operator from (node, interpreter state) to   *)
(* an outcome: the new interpreter state plus either a value, a raised     *)
(* ReturnException or a raised Python exception.                           *)
(***************************************************************************)
EXTENDS Integers, Sequences, FiniteSets, TLC

VARIABLES
    syms,      \* heap of Symbol objects (env.py Symbol), index = identity
    envs,      \* heap of Environment objects (env.py Environment)
    env,       \* Interpreter.env, the current-environment cursor
    log,       \* what the evaluation of the last top-level item did, in order
    last,      \* how the last top-level item ended, as the driver saw it
    item,      \* the last top-level item handed to Interpreter.eval
    nItems,    \* number of top-level items evaluated so far
    repl       \* the REPL object (repl.py): code, awaiting_more_input, is_active,
               \* and what its last loop iteration read and did

vars == <<syms, envs, env, log, last, item, nItems, repl>>

-----------------------------------------------------------------------------
(* Bounds *)

\* the driver evaluates at most this many top-level items
MaxItems == 3
\* the REPL reads lines of at most this many characters
MaxLineLen == 2
\* the REPL reads a line only while its buffer holds fewer lines than this
MaxLines == 2

-----------------------------------------------------------------------------
(* Values *)

NoneV == [t |-> "none"]
IntV(i) == [t |-> "int", n |-> i]
BoolV(b) == [t |-> "bool", b |-> b]
\* a float is kept as the exact fraction num/den, den > 0, in lowest terms
FloatV(num, den) == [t |-> "float", num |-> num, den |-> den]
\* a str is the sequence of its characters
StrV(chars) == [t |-> "str", s |-> chars]
ListV(els) == [t |-> "list", els |-> els]
SymRef(id) == [t |-> "sym", id |-> id]
\* the Python closure interpreted_function: the declaration node and the
\* environment captured where it was declared
FnV(node, outer) == [t |-> "fn", decl |-> node, outer |-> outer]
\* a struct instance: the dict {'type_name': ..., field: Symbol, ...}
DictV(type_name, fields) == [t |-> "dict", type_name |-> type_name, fields |-> fields]
\* the (name, Symbol) pair eval_FieldAssign returns
TupleV(name, v) == [t |-> "tuple", name |-> name, v |-> v]

\* an identifier that has become a Python str (a field name, a type name):
\* kept whole, as a one-element sequence
NameStr(name) == StrV(<<name>>)

\* Optional[...] fields of AST nodes
None == [some |-> FALSE]
Some(x) == [some |-> TRUE, v |-> x]

-----------------------------------------------------------------------------
(* AST nodes (ast_nodes.py) *)

BinaryOp(op, left, right) == [k |-> "BinaryOp", op |-> op, left |-> left, right |-> right]
UnaryOp(op, expr) == [k |-> "UnaryOp", op |-> op, expr |-> expr]
Literal(value) == [k |-> "Literal", value |-> value]
Identifier(name) == [k |-> "Identifier", name |-> name]
FunctionCall(func, args) == [k |-> "FunctionCall", func |-> func, args |-> args]
MemberAccess(obj, field) == [k |-> "MemberAccess", obj |-> obj, field |-> field]
IndexAccess(array, index) == [k |-> "IndexAccess", array |-> array, index |-> index]
StructLiteral(type_name, fields) == [k |-> "StructLiteral", type_name |-> type_name, fields |-> fields]
FieldAssign(name, value) == [k |-> "FieldAssign", name |-> name, value |-> value]
ArrayLiteral(elements) == [k |-> "ArrayLiteral", elements |-> elements]
Import(path) == [k |-> "Import", path |-> path]
FunctionDecl(name, parameters, body) ==
    [k |-> "FunctionDecl", name |-> name, parameters |-> parameters, body |-> body]
StructDecl(name, fields) == [k |-> "StructDecl", name |-> name, fields |-> fields]
VariableDecl(name, expr) == [k |-> "VariableDecl", name |-> name, expr |-> expr]
Assignment(target, expr) == [k |-> "Assignment", target |-> target, expr |-> expr]
IfStmt(branches, else_block) == [k |-> "IfStmt", branches |-> branches, else_block |-> else_block]
WhileStmt(condition, body) == [k |-> "WhileStmt", condition |-> condition, body |-> body]
ForStmt(var, iterable, body) == [k |-> "ForStmt", var |-> var, iterable |-> iterable, body |-> body]
ReturnStmt(value) == [k |-> "ReturnStmt", value |-> value]
ExprStmt(expr) == [k |-> "ExprStmt", expr |-> expr]
Block(statements) == [k |-> "Block", statements |-> statements]

\* parser.py p_parameters_opt: an empty parameter list is stored as None
parameters_opt(ps) == IF ps = <<>> THEN None ELSE Some(ps)

-----------------------------------------------------------------------------
(* Outcomes of a handler *)

\* normal completion with a value
Ok(st, v) == [st |-> st, sig |-> "ok", val |-> v, exc |-> "", msg |-> ""]
\* raise ReturnException(value)
ReturnException(st, v) == [st |-> st, sig |-> "return", val |-> v, exc |-> "ReturnException", msg |-> ""]
\* raise of any other Python exception: its class and a tag for its message
Raise(st, exc, msg) == [st |-> st, sig |-> "raise", val |-> NoneV, exc |-> exc, msg |-> msg]

\* append to the record of what this evaluation did
Emit(st, ev) == [st EXCEPT !.log = Append(@, ev)]

-----------------------------------------------------------------------------
(* Symbol (env.py) *)

\* Symbol._infer_type
infer_type(value) ==
    CASE value.t = "none" -> "null"
      [] value.t = "bool" -> "bool"
      [] value.t = "int" -> "int"
      [] value.t = "float" -> "float"
      [] value.t = "str" -> "string"
      [] value.t = "dict" -> "struct"
      [] value.t = "list" -> "array"
      [] OTHER -> "unknown"

\* Symbol.__post_init__: the kind given to the constructor is overwritten
post_init(value, kind) == infer_type(value)

\* Symbol(value, kind, is_mutable): a new object on the heap
Symbol(st, value, kind, is_mutable) ==
    LET obj == [value |-> value, kind |-> post_init(value, kind), is_mutable |-> is_mutable]
    IN [st |-> [st EXCEPT !.syms = Append(@, obj)], id |-> Len(st.syms) + 1]

\* the module-level sentinel  null = Symbol(None, 'null', False)
null == 1

\* utils.unwrap: one level only
unwrap(st, v) == IF v.t = "sym" THEN st.syms[v.id].value ELSE v

-----------------------------------------------------------------------------
(* Environment (env.py) *)

NoSymbols == [n \in {} |-> 0]

\* Environment.__init__: parent 0 stands for None
Environment(st, parent) ==
    [st |-> [st EXCEPT !.envs = Append(@, [symbols |-> NoSymbols, parent |-> parent])],
     id |-> Len(st.envs) + 1]

RECURSIVE lookup(_, _, _)
\* Environment.lookup: the nearest scope binding name, 0 for None
lookup(st, e, name) ==
    IF name \in DOMAIN st.envs[e].symbols THEN e
    ELSE IF st.envs[e].parent # 0 THEN lookup(st, st.envs[e].parent, name)
    ELSE 0

\* define as it would be if it looked for name along the whole parent chain
define_along_chain(st, e, name, sym, redefine) ==
    IF lookup(st, e, name) # 0 /\ ~redefine
    THEN Raise(st, "RuntimeError", "Redefinition")
    ELSE LET old == st.envs[e].symbols
             new == [n \in DOMAIN old \cup {name} |-> IF n = name THEN sym ELSE old[n]]
         IN Ok([st EXCEPT !.envs[e].symbols = new], NoneV)

\* Environment.define
define(st, e, name, sym, redefine) ==
    IF name \in DOMAIN st.envs[e].symbols /\ ~redefine
    THEN Raise(st, "RuntimeError", "Redefinition")
    ELSE LET old == st.envs[e].symbols
             new == [n \in DOMAIN old \cup {name} |-> IF n = name THEN sym ELSE old[n]]
         IN Ok([st EXCEPT !.envs[e].symbols = new], NoneV)

\* assign as it would be without the test of is_mutable
assign_unguarded(st, e, name, value) ==
    LET found == lookup(st, e, name) IN
    IF found # 0
    THEN Ok([st EXCEPT !.syms[st.envs[found].symbols[name]].value = value], NoneV)
    ELSE Raise(st, "RuntimeError", "Undefined")

\* Environment.assign
assign(st, e, name, value) ==
    LET found == lookup(st, e, name) IN
    IF found # 0
    THEN LET obj == st.envs[found].symbols[name] IN
         IF st.syms[obj].is_mutable
         THEN Ok([st EXCEPT !.syms[obj].value = value], NoneV)
         ELSE Raise(st, "RuntimeError", "Immutable")
    ELSE Raise(st, "RuntimeError", "Undefined")

\* Environment.ref: the bound Symbol, or the null sentinel
ref(st, e, name) ==
    LET found == lookup(st, e, name) IN
    IF found # 0 THEN st.envs[found].symbols[name] ELSE null

-----------------------------------------------------------------------------
(* Python's value semantics, as far as the operators of utils.py and the    *)
(* handlers of interpreter.py use them.  An operand combination that is not *)
(* modelled raises the pseudo-exception "Unmodelled", which no evaluation   *)
(* of the items below produces.                                             *)

IsNum(v) == v.t \in {"int", "bool", "float"}
IsInt(v) == v.t \in {"int", "bool"}
\* int(x) of an int or a bool (bool is a subclass of int)
AsInt(v) == IF v.t = "bool" THEN (IF v.b THEN 1 ELSE 0) ELSE v.n
NumOf(v) == IF v.t = "float" THEN v.num ELSE AsInt(v)
DenOf(v) == IF v.t = "float" THEN v.den ELSE 1

Abs(i) == IF i < 0 THEN -i ELSE i
RECURSIVE Gcd(_, _)
Gcd(a, b) == IF b = 0 THEN a ELSE Gcd(b, a % b)
\* the float num/den, den # 0, in lowest terms
Fraction(num, den) ==
    LET g == Gcd(Abs(num), Abs(den))
        s == IF den < 0 THEN -1 ELSE 1
    IN FloatV((s * num) \div g, (s * den) \div g)
\* the result of int/float arithmetic: a float as soon as one operand is one
Number(a, b, num, den) ==
    IF a.t = "float" \/ b.t = "float" THEN Fraction(num, den) ELSE IntV(num \div den)

\* Python's bool(x).  A Symbol is a dataclass without __bool__ or __len__:
\* always true, whatever it holds
truthy(v) ==
    CASE v.t = "none" -> FALSE
      [] v.t = "bool" -> v.b
      [] v.t = "int" -> v.n # 0
      [] v.t = "float" -> v.num # 0
      [] v.t = "str" -> Len(v.s) > 0
      [] v.t = "list" -> Len(v.els) > 0
      [] OTHER -> TRUE

RECURSIVE PyEq(_, _, _)
\* Python's a == b.  Two Symbols compare as dataclasses, field by field
PyEq(st, a, b) ==
    CASE IsNum(a) /\ IsNum(b) -> NumOf(a) * DenOf(b) = NumOf(b) * DenOf(a)
      [] a.t = "none" /\ b.t = "none" -> TRUE
      [] a.t = "str" /\ b.t = "str" -> a.s = b.s
      [] a.t = "fn" /\ b.t = "fn" -> a = b
      [] a.t = "sym" /\ b.t = "sym" ->
            \/ a.id = b.id
            \/ /\ PyEq(st, st.syms[a.id].value, st.syms[b.id].value)
               /\ st.syms[a.id].kind = st.syms[b.id].kind
               /\ st.syms[a.id].is_mutable = st.syms[b.id].is_mutable
      [] a.t = "list" /\ b.t = "list" ->
            /\ Len(a.els) = Len(b.els)
            /\ \A i \in 1..Len(a.els) : PyEq(st, a.els[i], b.els[i])
      [] a.t = "dict" /\ b.t = "dict" ->
            /\ a.type_name = b.type_name
            /\ DOMAIN a.fields = DOMAIN b.fields
            /\ \A f \in DOMAIN a.fields : PyEq(st, a.fields[f], b.fields[f])
      [] OTHER -> FALSE

\* Python's floor modulo on ints, b # 0: the result has the sign of b
PyMod(a, b) == IF b > 0 THEN a % b ELSE -((-a) % (-b))

RECURSIVE Power(_, _)
Power(a, n) == IF n = 0 THEN 1 ELSE a * Power(a, n - 1)

RECURSIVE Repeat(_, _)
Repeat(seq, n) == IF n <= 0 THEN <<>> ELSE seq \o Repeat(seq, n - 1)

TypeError(st) == Raise(st, "TypeError", "unsupported operand")
Unmodelled(st) == Raise(st, "Unmodelled", "")

\* utils.binary_op
binary_op(st, op, left0, right0) ==
    LET left == unwrap(st, left0)
        right == unwrap(st, right0)
        nums == IsNum(left) /\ IsNum(right)
        ln == NumOf(left)   ld == DenOf(left)
        rn == NumOf(right)  rd == DenOf(right)
    IN
    CASE op = "+" ->
            IF nums THEN Ok(st, Number(left, right, ln * rd + rn * ld, ld * rd))
            ELSE IF left.t = "str" /\ right.t = "str" THEN Ok(st, StrV(left.s \o right.s))
            ELSE IF left.t = "list" /\ right.t = "list" THEN Ok(st, ListV(left.els \o right.els))
            ELSE TypeError(st)
      [] op = "-" ->
            IF nums THEN Ok(st, Number(left, right, ln * rd - rn * ld, ld * rd))
            ELSE TypeError(st)
      [] op = "*" ->
            IF nums THEN Ok(st, Number(left, right, ln * rn, ld * rd))
            ELSE IF left.t = "str" /\ IsInt(right) THEN Ok(st, StrV(Repeat(left.s, AsInt(right))))
            ELSE IF IsInt(left) /\ right.t = "str" THEN Ok(st, StrV(Repeat(right.s, AsInt(left))))
            ELSE IF left.t = "list" /\ IsInt(right) THEN Ok(st, ListV(Repeat(left.els, AsInt(right))))
            ELSE IF IsInt(left) /\ right.t = "list" THEN Ok(st, ListV(Repeat(right.els, AsInt(left))))
            ELSE TypeError(st)
      [] op = "/" ->
            \* right == 0 is decided before the operand types are looked at;
            \* a Symbol compared with 0 is not equal to it
            IF PyEq(st, right, IntV(0)) THEN Raise(st, "ZeroDivisionError", "Division by zero")
            ELSE IF nums THEN Ok(st, Fraction(ln * rd, ld * rn))
            ELSE TypeError(st)
      [] op = "%" ->
            IF IsInt(left) /\ IsInt(right)
            THEN IF AsInt(right) = 0 THEN Raise(st, "ZeroDivisionError", "integer modulo by zero")
                 ELSE Ok(st, IntV(PyMod(AsInt(left), AsInt(right))))
            ELSE IF nums \/ left.t = "str" THEN Unmodelled(st)
            ELSE TypeError(st)
      [] op = "**" ->
            IF IsInt(left) /\ IsInt(right) /\ AsInt(right) >= 0
            THEN Ok(st, IntV(Power(AsInt(left), AsInt(right))))
            ELSE IF nums THEN Unmodelled(st)
            ELSE TypeError(st)
      [] op = "==" -> Ok(st, BoolV(PyEq(st, left, right)))
      [] op = "!=" -> Ok(st, BoolV(~PyEq(st, left, right)))
      [] op \in {"<", "<=", ">", ">="} ->
            IF nums
            THEN LET a == ln * rd
                     b == rn * ld
                 IN Ok(st, BoolV(CASE op = "<" -> a < b
                                   [] op = "<=" -> a <= b
                                   [] op = ">" -> a > b
                                   [] op = ">=" -> a >= b))
            ELSE IF left.t = right.t /\ left.t \in {"str", "list"} THEN Unmodelled(st)
            ELSE TypeError(st)
      [] op = "&&" -> Ok(st, IF truthy(left) THEN right ELSE left)
      [] op = "||" -> Ok(st, IF truthy(left) THEN left ELSE right)
      [] OTHER -> Raise(st, "RuntimeError", "Unknown binary operator")

\* Python's container[index], as eval_IndexAccess and eval_MemeberAccess use it
getitem(st, container, index) ==
    CASE container.t \in {"list", "str"} ->
            LET seq == IF container.t = "list" THEN container.els ELSE container.s
                n == Len(seq)
            IN IF ~IsInt(index) THEN Raise(st, "TypeError", "indices must be integers")
               ELSE LET i == AsInt(index)
                        j == IF i < 0 THEN i + n ELSE i    \* a negative index counts from the end
                    IN IF j < 0 \/ j >= n THEN Raise(st, "IndexError", "index out of range")
                       ELSE Ok(st, IF container.t = "list" THEN seq[j + 1] ELSE StrV(<<seq[j + 1]>>))
      [] container.t = "dict" ->
            IF index.t \in {"list", "dict", "sym"} THEN Raise(st, "TypeError", "unhashable type")
            ELSE IF index.t = "str" /\ index.s = <<"type_name">> THEN Ok(st, container.type_name)
            ELSE IF index.t = "str" /\ Len(index.s) = 1 /\ index.s[1] \in DOMAIN container.fields
                 THEN Ok(st, container.fields[index.s[1]])
            ELSE Raise(st, "KeyError", "")
      [] OTHER -> Raise(st, "TypeError", "object is not subscriptable")

\* container[name] with a str key, as eval_MemeberAccess uses it
getfield(st, container, name) ==
    CASE container.t = "dict" ->
            IF name = "type_name" THEN Ok(st, container.type_name)
            ELSE IF name \in DOMAIN container.fields THEN Ok(st, container.fields[name])
            ELSE Raise(st, "KeyError", name)
      [] container.t \in {"list", "str"} -> Raise(st, "TypeError", "indices must be integers")
      [] OTHER -> Raise(st, "TypeError", "object is not subscriptable")

\* Python's callable(x): a Symbol is a dataclass without __call__
callable(v) == v.t = "fn"

-----------------------------------------------------------------------------
(* Interpreter (interpreter.py) *)

\* the classes for which Interpreter has a method eval_<ClassName>; the
\* member-access handler is spelled eval_MemeberAccess, so MemberAccess has none
EvalMethods ==
    {"BinaryOp", "UnaryOp", "Literal", "Identifier", "FunctionCall", "IndexAccess",
     "ArrayLiteral", "StructLiteral", "FieldAssign", "Import", "FunctionDecl",
     "StructDecl", "VariableDecl", "Assignment", "IfStmt", "WhileStmt", "ForStmt",
     "ReturnStmt", "ExprStmt", "Block", "Program"}

RECURSIVE eval(_, _)
RECURSIVE evalEach(_, _)
RECURSIVE interpreted_function(_, _, _)

\* [self.eval(x) for x in nodes]: left to right, stopping at the first raise
evalEach(nodes, st) ==
    IF nodes = <<>> THEN Ok(st, ListV(<<>>))
    ELSE LET r == eval(Head(nodes), st) IN
         IF r.sig # "ok" THEN r
         ELSE LET rest == evalEach(Tail(nodes), r.st) IN
              IF rest.sig # "ok" THEN rest
              ELSE Ok(rest.st, ListV(<<r.val>> \o rest.val.els))

eval_BinaryOp(node, st) ==
    LET left == eval(node.left, st) IN
    IF left.sig # "ok" THEN left
    ELSE LET right == eval(node.right, left.st) IN
         IF right.sig # "ok" THEN right
         ELSE binary_op(right.st, node.op, left.val, right.val)

eval_UnaryOp(node, st) ==
    LET r == eval(node.expr, st) IN
    IF r.sig # "ok" THEN r
    ELSE LET operand == IF r.val.t = "sym" THEN r.st.syms[r.val.id].value ELSE r.val IN
         CASE node.op = "-" ->
                IF ~IsNum(operand) THEN Raise(r.st, "RuntimeError", "Unsupported unary operator")
                ELSE IF operand.t = "float" THEN Ok(r.st, FloatV(-operand.num, operand.den))
                ELSE Ok(r.st, IntV(-AsInt(operand)))
           [] node.op = "!" -> Ok(r.st, BoolV(~truthy(operand)))
           [] OTHER -> Raise(r.st, "RuntimeError", "Unknown unary operator")

eval_Literal(node, st) == Ok(st, node.value)

\* returns the Symbol itself, not the value it holds
eval_Identifier(node, st) ==
    LET symbol == ref(st, st.env, node.name) IN
    IF symbol = null THEN Raise(st, "RuntimeError", "Undefined")
    ELSE Ok(st, SymRef(symbol))

eval_FunctionCall(node, st) ==
    LET func_callable == eval(node.func, st) IN
    IF func_callable.sig # "ok" THEN func_callable
    ELSE IF ~callable(func_callable.val)
    THEN \* the message reads node.func.name, which only some nodes have
         IF "name" \in DOMAIN node.func
         THEN Raise(func_callable.st, "RuntimeError", "NotCallable")
         ELSE Raise(func_callable.st, "AttributeError", "name")
    ELSE LET args == evalEach(node.args, func_callable.st) IN
         IF args.sig # "ok" THEN args
         ELSE LET r == interpreted_function(func_callable.val, args.val.els, args.st) IN
              CASE r.sig = "ok" -> Ok(Emit(r.st, [e |-> "call_value", val |-> r.val]), r.val)
                [] r.sig = "return" ->
                      Ok(Emit(r.st, [e |-> "caught", by |-> "eval_FunctionCall",
                                     depth |-> r.st.depth, val |-> r.val]), r.val)
                \* except Exception: raised again as a RuntimeError quoting the message
                [] OTHER -> Raise(r.st, "RuntimeError", r.msg)

eval_MemeberAccess(node, st) ==
    LET obj == eval(node.obj, st) IN
    IF obj.sig # "ok" THEN obj
    ELSE IF obj.val.t = "sym" THEN getfield(obj.st, obj.st.syms[obj.val.id].value, node.field)
    ELSE getfield(obj.st, obj.val, node.field)

\* the index is used as evaluated: it is not unwrapped
eval_IndexAccess(node, st) ==
    LET array == eval(node.array, st) IN
    IF array.sig # "ok" THEN array
    ELSE LET index == eval(node.index, array.st) IN
         IF index.sig # "ok" THEN index
         ELSE IF array.val.t = "sym"
         THEN getitem(index.st, index.st.syms[array.val.id].value, index.val)
         ELSE getitem(index.st, array.val, index.val)

RECURSIVE to_symbol(_, _)
\* utils.to_symbol: every argument that is not a Symbol gets one of its own
to_symbol(st, args) ==
    IF args = <<>> THEN Ok(st, ListV(<<>>))
    ELSE LET first == IF Head(args).t = "sym" THEN [st |-> st, id |-> Head(args).id]
                      ELSE Symbol(st, Head(args), "", TRUE)
             rest == to_symbol(first.st, Tail(args))
         IN Ok(rest.st, ListV(<<SymRef(first.id)>> \o rest.val.els))

eval_ArrayLiteral(node, st) ==
    LET elements == evalEach(node.elements, st) IN
    IF elements.sig # "ok" THEN elements
    ELSE to_symbol(elements.st, elements.val.els)

eval_FieldAssign(node, st) ==
    LET r == eval(node.value, st) IN
    IF r.sig # "ok" THEN r
    ELSE LET s == Symbol(r.st, r.val, "", TRUE) IN
         Ok(s.st, TupleV(node.name, SymRef(s.id)))

RECURSIVE struct_fields(_, _, _, _, _, _)
\* the loop of eval_StructLiteral over node.fields
struct_fields(node, fields, todo, st, instance, assigned_fields) ==
    IF todo = <<>>
    THEN IF Cardinality(assigned_fields) # Len(fields.els)
         THEN Raise(st, "RuntimeError", "MissingField")
         ELSE LET s == Symbol(st, DictV(NameStr(node.type_name), instance), "", TRUE)
              IN Ok(s.st, SymRef(s.id))
    ELSE LET field_assign == Head(todo) IN
         IF ~(\E i \in 1..Len(fields.els) : fields.els[i] = NameStr(field_assign.name))
         THEN Raise(st, "RuntimeError", "NoSuchField")
         ELSE IF field_assign.name \in assigned_fields
         THEN Raise(st, "RuntimeError", "DuplicateField")
         ELSE LET r == eval(field_assign, st) IN
              IF r.sig # "ok" THEN r
              ELSE LET grown == [f \in DOMAIN instance \cup {r.val.name} |->
                                    IF f = r.val.name THEN r.val.v ELSE instance[f]]
                   IN struct_fields(node, fields, Tail(todo), r.st, grown,
                                    assigned_fields \cup {field_assign.name})

eval_StructLiteral(node, st) ==
    LET struct_symbol == ref(st, st.env, node.type_name) IN
    IF struct_symbol = null \/ st.syms[struct_symbol].kind # "struct_type"
    THEN Raise(st, "RuntimeError", "UnknownStructType")
    ELSE struct_fields(node, st.syms[struct_symbol].value, node.fields, st,
                       NoSymbols, {})

eval_Import(node, st) == Ok(st, NoneV)

\* the closure captures the node and the environment current at the declaration
eval_FunctionDecl(node, st) ==
    LET s == Symbol(st, FnV(node, st.env), "function", FALSE) IN
    define(s.st, s.st.env, node.name, s.id, FALSE)

RECURSIVE NameList(_)
\* node.fields, a Python list of str
NameList(names) == IF names = <<>> THEN <<>> ELSE <<NameStr(Head(names))>> \o NameList(Tail(names))

eval_StructDecl(node, st) ==
    LET struct_symbol == Symbol(st, ListV(NameList(node.fields)), "struct_type", FALSE) IN
    define(struct_symbol.st, struct_symbol.st.env, node.name, struct_symbol.id, FALSE)

\* the initializer's result is stored as evaluated: an Identifier initializer
\* stores the other name's Symbol inside the new Symbol
eval_VariableDecl(node, st) ==
    LET value == eval(node.expr, st) IN
    IF value.sig # "ok" THEN value
    ELSE LET s == Symbol(value.st, value.val, "", TRUE) IN
         define(s.st, s.st.env, node.name, s.id, FALSE)

\* the first test is made on the Assignment node itself, not on node.target
eval_Assignment(node, st) ==
    IF node.k \notin {"Identifier", "IndexAccess", "MemberAccess"}
    THEN Raise(st, "RuntimeError", "Invalid assignment target")
    ELSE LET value == eval(node.expr, st) IN
         IF value.sig # "ok" THEN value
         ELSE LET target == eval(node.target, value.st) IN
              IF target.sig # "ok" THEN target
              ELSE IF target.val.t # "sym"
              THEN Raise(target.st, "AttributeError", "is_mutable")
              ELSE Ok([target.st EXCEPT !.syms[target.val.id].value = unwrap(target.st, value.val)],
                      NoneV)

RECURSIVE if_branches(_, _, _)
\* the loop of eval_IfStmt over node.branches, then the else block
if_branches(node, branches, st) ==
    IF branches = <<>>
    THEN IF node.else_block.some THEN eval(node.else_block.v, st) ELSE Ok(st, NoneV)
    ELSE LET condition == eval(Head(branches)[1], st) IN
         IF condition.sig # "ok" THEN condition
         ELSE IF truthy(condition.val) THEN eval(Head(branches)[2], condition.st)
         ELSE if_branches(node, Tail(branches), condition.st)

eval_IfStmt(node, st) == if_branches(node, node.branches, st)

RECURSIVE eval_WhileStmt(_, _)
eval_WhileStmt(node, st) ==
    LET condition == eval(node.condition, st) IN
    IF condition.sig # "ok" THEN condition
    ELSE IF ~truthy(condition.val) THEN Ok(condition.st, NoneV)
    ELSE LET body == eval(node.body, condition.st) IN
         IF body.sig # "ok" THEN body
         ELSE eval_WhileStmt(node, body.st)

\* finally: self.env = previous_env  (eval_ForStmt)
ForStmt_finally(r, previous_env) == [r EXCEPT !.st.env = previous_env]

\* the record of one iteration, made when the body is about to be evaluated:
\* the scope, the Symbol the loop variable resolves to and what it holds
iteration(st, var) ==
    [e |-> "iteration", kind |-> "ForStmt", scope |-> st.env, var |-> var,
     symbol |-> ref(st, st.env, var), bound |-> st.syms[ref(st, st.env, var)].value]

RECURSIVE for_loop_defining_only(_, _, _)
\* the loop as it would be if a failed define were not followed by assign
for_loop_defining_only(node, elements, st) ==
    IF elements = <<>> THEN Ok(st, NoneV)
    ELSE LET element == Head(elements)
             iter_var == Symbol(st, element, "loop_var", TRUE)
             defined == define(iter_var.st, iter_var.st.env, node.var, iter_var.id, FALSE)
             bound == IF defined.sig = "raise" /\ defined.exc = "RuntimeError"
                      THEN Ok(defined.st, NoneV)
                      ELSE defined
         IN IF bound.sig # "ok" THEN bound
            ELSE LET body == eval(node.body, Emit(bound.st, iteration(bound.st, node.var))) IN
                 IF body.sig # "ok" THEN body
                 ELSE for_loop_defining_only(node, Tail(elements), body.st)

RECURSIVE for_loop(_, _, _)
\* the loop of eval_ForStmt over the elements of the iterable
for_loop(node, elements, st) ==
    IF elements = <<>> THEN Ok(st, NoneV)
    ELSE LET element == Head(elements)
             iter_var == Symbol(st, element, "loop_var", TRUE)
             defined == define(iter_var.st, iter_var.st.env, node.var, iter_var.id, FALSE)
             bound == IF defined.sig = "raise" /\ defined.exc = "RuntimeError"
                      THEN assign(defined.st, defined.st.env, node.var, element)
                      ELSE defined
         IN IF bound.sig # "ok" THEN bound
            ELSE LET body == eval(node.body, Emit(bound.st, iteration(bound.st, node.var))) IN
                 IF body.sig # "ok" THEN body
                 ELSE for_loop(node, Tail(elements), body.st)

\* the elements Python's iteration yields: list items, or the characters of a str
Elements(v) == IF v.t = "list" THEN v.els ELSE [i \in 1..Len(v.s) |-> StrV(<<v.s[i]>>)]

eval_ForStmt(node, st) ==
    LET r == eval(node.iterable, st) IN
    IF r.sig # "ok" THEN r
    ELSE LET iterable == IF r.val.t = "sym" THEN r.st.syms[r.val.id].value ELSE r.val IN
         IF iterable.t \notin {"list", "str"}
         THEN Raise(r.st, "RuntimeError", "For loop expects an iterable")
         ELSE LET previous_env == r.st.env
                  scope == Environment(r.st, previous_env)
                  done == ForStmt_finally(
                             for_loop(node, Elements(iterable), [scope.st EXCEPT !.env = scope.id]),
                             previous_env)
              IN [done EXCEPT !.st = Emit(@, [e |-> "scope", kind |-> "ForStmt",
                                             before |-> previous_env, inside |-> scope.id,
                                             after |-> done.st.env, how |-> done.sig])]

eval_ReturnStmt(node, st) ==
    IF node.value.some
    THEN LET value == eval(node.value.v, st) IN
         IF value.sig # "ok" THEN value
         ELSE ReturnException(Emit(value.st, [e |-> "return", depth |-> value.st.depth,
                                              val |-> value.val]), value.val)
    ELSE ReturnException(Emit(st, [e |-> "return", depth |-> st.depth, val |-> NoneV]), NoneV)

eval_ExprStmt(node, st) ==
    LET r == eval(node.expr, st) IN
    IF r.sig # "ok" THEN r ELSE Ok(r.st, NoneV)

\* the restore as it would be without try/finally: skipped when a statement raises
Block_restore_after_loop(r, previous_env) ==
    IF r.sig = "ok" THEN [r EXCEPT !.st.env = previous_env] ELSE r

\* finally: self.env = previous_env  (eval_Block)
Block_finally(r, previous_env) == [r EXCEPT !.st.env = previous_env]

RECURSIVE block_statements_catching(_, _)
\* the loop as it would be if a block ended a ReturnException itself and went on
block_statements_catching(statements, st) ==
    IF statements = <<>> THEN Ok(st, NoneV)
    ELSE LET r == eval(Head(statements),
                       Emit(st, [e |-> "stmt", node |-> Head(statements).k, depth |-> st.depth]))
         IN IF r.sig = "raise" THEN r
            ELSE block_statements_catching(Tail(statements), r.st)

RECURSIVE block_statements(_, _)
\* the loop of eval_Block over node.statements
block_statements(statements, st) ==
    IF statements = <<>> THEN Ok(st, NoneV)
    ELSE LET r == eval(Head(statements),
                       Emit(st, [e |-> "stmt", node |-> Head(statements).k, depth |-> st.depth]))
         IN IF r.sig # "ok" THEN r
            ELSE block_statements(Tail(statements), r.st)

eval_Block(node, st) ==
    LET previous_env == st.env
        scope == Environment(st, previous_env)
        done == Block_finally(
                   block_statements(node.statements, [scope.st EXCEPT !.env = scope.id]),
                   previous_env)
    IN [done EXCEPT !.st = Emit(@, [e |-> "scope", kind |-> "Block",
                                   before |-> previous_env, inside |-> scope.id,
                                   after |-> done.st.env, how |-> done.sig])]

RECURSIVE eval_Program(_, _)
eval_Program(node, st) ==
    IF node.declarations = <<>> THEN Ok(st, NoneV)
    ELSE LET r == eval(Head(node.declarations), st) IN
         IF r.sig # "ok" THEN r
         ELSE eval_Program([node EXCEPT !.declarations = Tail(@)], r.st)

RECURSIVE bind_parameters(_, _, _, _)
\* interpreted_function: for param_node, arg_value in zip(node.parameters, args)
bind_parameters(parameters, args, st, call_env) ==
    IF parameters = <<>> \/ args = <<>> THEN Ok(st, NoneV)
    ELSE LET s == Symbol(st, Head(args), "", TRUE)
             defined == define(s.st, call_env, Head(parameters).name, s.id, FALSE)
         IN IF defined.sig # "ok" THEN defined
            ELSE bind_parameters(Tail(parameters), Tail(args), defined.st, call_env)

\* finally: self.env = previous_interpreter_env  (interpreted_function)
call_finally(r, previous_interpreter_env) ==
    [r EXCEPT !.st.env = previous_interpreter_env, !.st.depth = @ - 1]

\* except ReturnException as e: return e.value; a body that ends without a
\* return makes the Python function return None
call_result(r) ==
    CASE r.sig = "return" ->
            Ok(Emit(r.st, [e |-> "caught", by |-> "interpreted_function",
                           depth |-> r.st.depth, val |-> r.val]), r.val)
      [] r.sig = "ok" -> Ok(r.st, NoneV)
      [] OTHER -> r

\* the closure eval_FunctionDecl builds, called with args
interpreted_function(fn, args, st) ==
    LET node == fn.decl
        outer_env_at_definition == fn.outer
        call_env == Environment(st, outer_env_at_definition)
    IN
    IF ~node.parameters.some THEN Raise(call_env.st, "TypeError", "len() of NoneType")
    ELSE IF Len(node.parameters.v) # Len(args) THEN Raise(call_env.st, "RuntimeError", "Arity")
    ELSE LET bound == bind_parameters(node.parameters.v, args, call_env.st, call_env.id) IN
         IF bound.sig # "ok" THEN bound
         ELSE LET previous_interpreter_env == bound.st.env
                  entered == [bound.st EXCEPT !.env = call_env.id, !.depth = @ + 1]
                  done == call_finally(call_result(eval(node.body, entered)),
                                       previous_interpreter_env)
              IN [done EXCEPT !.st = Emit(@, [e |-> "scope", kind |-> "call",
                                             before |-> previous_interpreter_env,
                                             inside |-> call_env.id,
                                             after |-> done.st.env, how |-> done.sig])]

\* Interpreter.eval: dispatch on the node's class name
eval(node, st) ==
    IF node.k \notin EvalMethods THEN Raise(st, "NotImplementedError", node.k)
    ELSE CASE node.k = "BinaryOp" -> eval_BinaryOp(node, st)
           [] node.k = "UnaryOp" -> eval_UnaryOp(node, st)
           [] node.k = "Literal" -> eval_Literal(node, st)
           [] node.k = "Identifier" -> eval_Identifier(node, st)
           [] node.k = "FunctionCall" -> eval_FunctionCall(node, st)
           [] node.k = "IndexAccess" -> eval_IndexAccess(node, st)
           [] node.k = "ArrayLiteral" -> eval_ArrayLiteral(node, st)
           [] node.k = "StructLiteral" -> eval_StructLiteral(node, st)
           [] node.k = "FieldAssign" -> eval_FieldAssign(node, st)
           [] node.k = "Import" -> eval_Import(node, st)
           [] node.k = "FunctionDecl" -> eval_FunctionDecl(node, st)
           [] node.k = "StructDecl" -> eval_StructDecl(node, st)
           [] node.k = "VariableDecl" -> eval_VariableDecl(node, st)
           [] node.k = "Assignment" -> eval_Assignment(node, st)
           [] node.k = "IfStmt" -> eval_IfStmt(node, st)
           [] node.k = "WhileStmt" -> eval_WhileStmt(node, st)
           [] node.k = "ForStmt" -> eval_ForStmt(node, st)
           [] node.k = "ReturnStmt" -> eval_ReturnStmt(node, st)
           [] node.k = "ExprStmt" -> eval_ExprStmt(node, st)
           [] node.k = "Block" -> eval_Block(node, st)
           [] node.k = "Program" -> eval_Program(node, st)

-----------------------------------------------------------------------------
(* Programs: the top-level items handed to the interpreter *)

IntLit(i) == Literal(IntV(i))
StrLit(chars) == Literal(StrV(chars))
Id(name) == Identifier(name)
\* [1, 2, 3]
Arr123 == ArrayLiteral(<<IntLit(1), IntLit(2), IntLit(3)>>)
\* -1
Minus1 == UnaryOp("-", IntLit(1))
\* (name || name)(args): the operator unwraps the Symbol, so the callee
\* expression yields the closure itself
CallValue(name, args) == FunctionCall(BinaryOp("||", Id(name), Id(name)), args)
\* name(args)
CallName(name, args) == FunctionCall(Id(name), args)

\* the literal false as the parser builds it: p_expr_literal stores the text
\* of the token, the lexer leaves the text of a keyword as it is
FalseLit == Literal(StrV(<<"f", "a", "l", "s", "e">>))
\* { return i; }
Returns(i) == Block(<<ReturnStmt(Some(IntLit(i)))>>)

\* fn f(a) { for e in [1, 2] { if a { while 1 { { return a; } let q = 1; } let r = 2; } let s = 3; } let t = 4; }
DeclF ==
    FunctionDecl("f", parameters_opt(<<Id("a")>>),
      Block(<<
        ForStmt("e", ArrayLiteral(<<IntLit(1), IntLit(2)>>),
          Block(<<
            IfStmt(<< <<Id("a"),
                Block(<<
                  WhileStmt(IntLit(1),
                    Block(<< Block(<<ReturnStmt(Some(Id("a")))>>),
                             VariableDecl("q", IntLit(1)) >>)),
                  VariableDecl("r", IntLit(2)) >>) >> >>, None),
            VariableDecl("s", IntLit(3)) >>)),
        VariableDecl("t", IntLit(4)) >>))

\* fn g(b) { let v = (f || f)(b); let u = 1 + 1; return u; }
DeclG ==
    FunctionDecl("g", parameters_opt(<<Id("b")>>),
      Block(<< VariableDecl("v", CallValue("f", <<Id("b")>>)),
               VariableDecl("u", BinaryOp("+", IntLit(1), IntLit(1))),
               ReturnStmt(Some(Id("u"))) >>))

\* fn h(a) { let v = (f || f)(a); for e in [v] { q; } }
DeclH ==
    FunctionDecl("h", parameters_opt(<<Id("a")>>),
      Block(<< VariableDecl("v", CallValue("f", <<Id("a")>>)),
               ForStmt("e", ArrayLiteral(<<Id("v")>>), Block(<<ExprStmt(Id("q"))>>)) >>))

\* fn m(a) { }
DeclM == FunctionDecl("m", parameters_opt(<<Id("a")>>), Block(<<>>))

\* fn k() { return; }
DeclK == FunctionDecl("k", parameters_opt(<<>>), Block(<<ReturnStmt(None)>>))

Items ==
    { VariableDecl("x", IntLit(1)),                       \* let x = 1;
      VariableDecl("z", IntLit(0)),                       \* let z = 0;
      VariableDecl("w", Id("z")),                      \* let w = z;
      VariableDecl("xs", Arr123),                      \* let xs = [1, 2, 3];
      Assignment(Id("x"), IntLit(2)),                     \* x = 2;
      Assignment(Id("f"), IntLit(1)),                     \* f = 1;
      Block(<<Assignment(Id("f"), IntLit(2))>>),          \* { f = 2; }
      Assignment(IndexAccess(Id("xs"), IntLit(0)), IntLit(7)),    \* xs[0] = 7;
      \* if false { return 1; } else { return 2; }
      IfStmt(<< <<FalseLit, Returns(1)>> >>, Some(Returns(2))),
      \* if z { return 1; } else { return 2; }
      IfStmt(<< <<Id("z"), Returns(1)>> >>, Some(Returns(2))),
      \* if 0 { return 1; } else if x { return 2; } else if (f || f)(7) { return 3; } else { return 4; }
      IfStmt(<< <<IntLit(0), Returns(1)>>, <<Id("x"), Returns(2)>>,
                <<CallValue("f", <<IntLit(7)>>), Returns(3)>> >>, Some(Returns(4))),
      \* if "" { return 1; } else if [] { return 2; }
      IfStmt(<< <<StrLit(<<>>), Returns(1)>>, <<ArrayLiteral(<<>>), Returns(2)>> >>, None),
      DeclF, DeclG, DeclH, DeclK, DeclM,
      VariableDecl("n", Literal(NoneV)),                  \* let n = null;
      VariableDecl("r", CallValue("m", <<IntLit(1)>>)),   \* let r = (m || m)(1);
      ExprStmt(CallValue("f", <<IntLit(7)>>)),            \* (f || f)(7);
      ExprStmt(CallValue("g", <<IntLit(1)>>)),            \* (g || g)(1);
      ExprStmt(CallValue("h", <<IntLit(1)>>)),         \* (h || h)(1);
      ExprStmt(CallValue("k", <<>>)),                  \* (k || k)();
      ExprStmt(CallValue("f", <<>>)),                  \* (f || f)();
      ExprStmt(CallName("f", <<IntLit(5)>>)),             \* f(5);
      StructDecl("P", <<"x", "y">>),                   \* struct P { x, y, };
      StructDecl("E", <<>>),                           \* struct E { };
      StructDecl("D", <<"x", "x">>),                   \* struct D { x, x, };
      \* P{x: 1, y: 2};
      ExprStmt(StructLiteral("P", <<FieldAssign("x", IntLit(1)), FieldAssign("y", IntLit(2))>>)),
      ExprStmt(StructLiteral("P", <<FieldAssign("x", IntLit(1))>>)),    \* P{x: 1};
      ExprStmt(StructLiteral("E", <<>>)),                            \* E{};
      ExprStmt(StructLiteral("D", <<FieldAssign("x", IntLit(1))>>)),    \* D{x: 1};
      ExprStmt(IndexAccess(Id("xs"), IntLit(1))),         \* xs[1];
      ExprStmt(IndexAccess(Id("xs"), Id("x"))),        \* xs[x];
      ExprStmt(IndexAccess(Arr123, IntLit(2))),           \* [1, 2, 3][2];
      ExprStmt(IndexAccess(Arr123, Minus1)),           \* [1, 2, 3][-1];
      ExprStmt(IndexAccess(Arr123, IntLit(3))),           \* [1, 2, 3][3];
      ExprStmt(IndexAccess(StrLit(<<"a", "b">>), IntLit(1))),    \* "ab"[1];
      ExprStmt(IndexAccess(StrLit(<<"a", "b">>), Minus1)),    \* "ab"[-1];
      ExprStmt(IndexAccess(StrLit(<<"a", "b">>), IntLit(2))),    \* "ab"[2];
      ExprStmt(BinaryOp("/", IntLit(1), IntLit(0))),         \* 1 / 0;
      ExprStmt(BinaryOp("/", StrLit(<<"a">>), IntLit(0))),   \* "a" / 0;
      ExprStmt(BinaryOp("/", IntLit(1), Literal(FloatV(0, 1)))),    \* 1 / 0.0;
      ExprStmt(BinaryOp("/", Id("x"), Id("z"))),       \* x / z;
      ExprStmt(BinaryOp("/", IntLit(1), Id("w"))),        \* 1 / w;
      ExprStmt(BinaryOp("/", IntLit(1), IntLit(2))),         \* 1 / 2;
      ReturnStmt(Some(IntLit(1))),                        \* return 1;
      \* { let a = 1; { return a; } let b = 2; }
      Block(<<VariableDecl("a", IntLit(1)), Block(<<ReturnStmt(Some(Id("a")))>>),
              VariableDecl("b", IntLit(2))>>),
      \* { let a = 1; { q; } let b = 2; }
      Block(<<VariableDecl("a", IntLit(1)), Block(<<ExprStmt(Id("q"))>>),
              VariableDecl("b", IntLit(2))>>),
      VariableDecl("e", IntLit(5)),                       \* let e = 5;
      \* for e in [1, 2] { e; }
      ForStmt("e", ArrayLiteral(<<IntLit(1), IntLit(2)>>), Block(<<ExprStmt(Id("e"))>>)),
      \* for e in xs { let t = e; }
      ForStmt("e", Id("xs"), Block(<<VariableDecl("t", Id("e"))>>)),
      \* for e in [0] { 1 / e; }
      ForStmt("e", ArrayLiteral(<<IntLit(0)>>), Block(<<ExprStmt(BinaryOp("/", IntLit(1), Id("e")))>>)),
      \* for c in "ab" { return c; }
      ForStmt("c", StrLit(<<"a", "b">>), Block(<<ReturnStmt(Some(Id("c")))>>)) }

-----------------------------------------------------------------------------
(* The REPL (repl.py) and its BlockTracker (utils.py) *)

\* a text is a sequence of characters, each a string of length one
Newline == "\n"
Quote == "\""
Backslash == "\\"

\* BlockTracker.__init__
pairs == [c \in {"{", "(", "["} |-> CASE c = "{" -> "}" [] c = "(" -> ")" [] c = "[" -> "]"]
opening == DOMAIN pairs
closing == {pairs[c] : c \in opening}

RECURSIVE check_chars(_, _, _, _, _)
\* the loop of check_string from character i on, then its return value: TRUE
\* when the text is judged incomplete
check_chars(code, i, stack, in_string, escape) ==
    IF i > Len(code) THEN stack # <<>> \/ in_string
    ELSE LET char == code[i]
             next_escape == (char = Backslash /\ ~escape)
         IN IF char = Quote /\ ~escape
            THEN check_chars(code, i + 1, stack, ~in_string, next_escape)
            ELSE IF char \in opening /\ ~in_string
            THEN check_chars(code, i + 1, Append(stack, char), in_string, next_escape)
            ELSE IF char \in closing /\ ~in_string
            THEN IF stack = <<>> \/ pairs[stack[Len(stack)]] # char
                 THEN TRUE
                 ELSE check_chars(code, i + 1, SubSeq(stack, 1, Len(stack) - 1), in_string,
                                  next_escape)
            ELSE check_chars(code, i + 1, stack, in_string, next_escape)

\* BlockTracker.check_string
check_string(code) == check_chars(code, 1, <<>>, FALSE, FALSE)

\* REPL.__init__ (the Interpreter it creates is the state built by Init);
\* line and evaluated record the last loop iteration: the line it read and
\* whether it went on to evaluate_code
REPL ==
    [code |-> <<>>, awaiting_more_input |-> FALSE, is_active |-> TRUE,
     line |-> <<>>, evaluated |-> FALSE]

\* REPL.shutdown
shutdown(r) == [r EXCEPT !.is_active = FALSE]

\* the line that ends the session (the lines read below hold no blanks and no
\* capitals, so line.strip().lower() is the line itself)
ExitLine == <<"e", "x", "i", "t", "(", ")">>

\* REPL.read_input, given the line input() returns
read_input(r, line) ==
    IF line = ExitLine THEN shutdown(r)
    ELSE LET code == r.code \o line \o <<Newline>>
         IN [r EXCEPT !.code = code, !.awaiting_more_input = check_string(code)]

\* what REPL.evaluate_code leaves in the REPL object, whatever the parser and
\* the interpreter do with the code: an empty buffer and the primary prompt
code_evaluated(r) == [r EXCEPT !.code = <<>>, !.awaiting_more_input = FALSE]

\* the characters lines are made of, and the lines
Chars == {"(", ")", "[", "]", Quote, Backslash}
Texts(n) == UNION {[1..k -> Chars] : k \in 0..n}
Lines == Texts(MaxLineLen) \cup {ExitLine}
NumLines(code) == Cardinality({i \in 1..Len(code) : code[i] = Newline})

\* one iteration of REPL.loop in which input() returns line
loop(line) ==
    /\ repl.is_active
    /\ NumLines(repl.code) < MaxLines
    /\ LET r == read_input(repl, line)
           evaluates == ~r.awaiting_more_input /\ r.is_active
       IN repl' = [(IF evaluates THEN code_evaluated(r) ELSE r)
                      EXCEPT !.line = line, !.evaluated = evaluates]
    /\ UNCHANGED <<syms, envs, env, log, last, item, nItems>>

\* one iteration of REPL.loop in which input() raises EOFError or
\* KeyboardInterrupt
loop_eof ==
    /\ repl.is_active
    /\ repl' = [shutdown(repl) EXCEPT !.line = <<>>, !.evaluated = FALSE]
    /\ UNCHANGED <<syms, envs, env, log, last, item, nItems>>

-----------------------------------------------------------------------------
(* The driver *)

\* Interpreter.global_env: the first Environment created
global_env == 1

\* Interpreter.__init__, after the import of env.py has created null
Init ==
    LET st0 == [syms |-> <<>>, envs |-> <<>>, env |-> 0, log |-> <<>>, depth |-> 0]
        n == Symbol(st0, NoneV, "null", FALSE)
        root == Environment(n.st, 0)
    IN /\ syms = root.st.syms
       /\ envs = root.st.envs
       /\ env = root.id
       /\ log = <<>>
       /\ last = [sig |-> "none", val |-> NoneV, exc |-> "", msg |-> ""]
       /\ item = [k |-> "none"]
       /\ nItems = 0
       /\ repl = REPL

\* REPL.evaluate_code: self.runtime.eval(program.declarations[0]) inside
\* try ... except Exception, which also ends a ReturnException
evaluate_code(it) ==
    /\ nItems < MaxItems
    /\ LET r == eval(it, [syms |-> syms, envs |-> envs, env |-> env, log |-> <<>>, depth |-> 0])
       IN /\ syms' = r.st.syms
          /\ envs' = r.st.envs
          /\ env' = r.st.env
          /\ log' = r.st.log
          /\ last' = [sig |-> r.sig, val |-> r.val, exc |-> r.exc, msg |-> r.msg]
    /\ item' = it
    /\ nItems' = nItems + 1
    /\ repl' = repl

Next == \E it \in Items : evaluate_code(it)

Spec == Init /\ [][Next]_vars

\* the names and the value direct calls of the Environment API are made with
ApiNames == {"x", "z", "f", "P", "q"}
ApiValue == IntV(9)

\* a direct call of Environment.assign on one of the Environment objects
assign_call(e, name, value) ==
    /\ nItems < MaxItems
    /\ LET r == assign([syms |-> syms, envs |-> envs, env |-> env, log |-> <<>>, depth |-> 0],
                       e, name, value)
       IN /\ syms' = r.st.syms
          /\ envs' = r.st.envs
          /\ last' = [sig |-> r.sig, val |-> r.val, exc |-> r.exc, msg |-> r.msg]
    /\ env' = env
    /\ log' = <<>>
    /\ item' = [k |-> "assign", env |-> e, name |-> name, value |-> value]
    /\ nItems' = nItems + 1
    /\ repl' = repl

\* a direct call of Environment.define on one of the Environment objects, with
\* a Symbol the caller has just constructed
define_call(e, name, value, redefine) ==
    /\ nItems < MaxItems
    /\ LET symbol == Symbol([syms |-> syms, envs |-> envs, env |-> env, log |-> <<>>, depth |-> 0],
                            value, "", TRUE)
           r == define(symbol.st, e, name, symbol.id, redefine)
       IN /\ syms' = r.st.syms
          /\ envs' = r.st.envs
          /\ last' = [sig |-> r.sig, val |-> r.val, exc |-> r.exc, msg |-> r.msg]
          /\ item' = [k |-> "define", env |-> e, name |-> name, symbol |-> symbol.id,
                      redefine |-> redefine]
    /\ env' = env
    /\ log' = <<>>
    /\ nItems' = nItems + 1
    /\ repl' = repl

NextEnv ==
    \/ \E it \in Items : evaluate_code(it)
    \/ \E e \in 1..Len(envs), name \in ApiNames : assign_call(e, name, ApiValue)
    \/ \E e \in 1..Len(envs), name \in ApiNames, redefine \in BOOLEAN :
          define_call(e, name, ApiValue, redefine)

\* the interpreter together with direct calls of the Environment API
SpecEnv == Init /\ [][NextEnv]_vars

NextRepl ==
    \/ \E line \in Lines : loop(line)
    \/ loop_eof

\* the REPL reading lines
SpecRepl == Init /\ [][NextRepl]_vars

\* no evaluation leaves the part of Python that is modelled
Modelled == last.exc # "Unmodelled"

-----------------------------------------------------------------------------
(* Reading the record of an evaluation *)

Events == 1..Len(log)
IsScope(i) == log[i].e = "scope"
\* a scope of the given kind was left the given way
ScopeLeft(kind, how) == \E i \in Events : IsScope(i) /\ log[i].kind = kind /\ log[i].how = how
\* the Symbol bound to name in the root environment, null when unbound
RootRef(name) ==
    ref([syms |-> syms, envs |-> envs], global_env, name)

-----------------------------------------------------------------------------
(* C1 *)

\* C1: every scope the evaluator entered (Block, ForStmt, user-function call)
\* left the cursor where it was before the scope was entered, however the
\* scope was left, and between top-level items the cursor is the root.
C1_CursorRestored ==
    /\ \A i \in Events : IsScope(i) => log[i].after = log[i].before
    /\ env = global_env

\* a call of h after f was declared: scopes of all three kinds are left by a
\* return (inside f) and by an error (the undefined q inside h)
C1_Witness ==
    /\ ScopeLeft("Block", "return") /\ ScopeLeft("ForStmt", "return") /\ ScopeLeft("call", "ok")
    /\ ScopeLeft("Block", "raise") /\ ScopeLeft("ForStmt", "raise") /\ ScopeLeft("call", "raise")
    /\ \E i \in Events : IsScope(i) /\ log[i].before # global_env
    /\ last.sig = "raise"

-----------------------------------------------------------------------------
(* C2 *)

\* the step is an attempt to assign to a name whose binding, seen from scope
\* e, is immutable
AssignsImmutable(e, name) ==
    LET st == [syms |-> syms, envs |-> envs] IN
    /\ lookup(st, e, name) # 0
    /\ ~syms[ref(st, e, name)].is_mutable

\* the item is an Assignment statement to a bare identifier, at the top level
\* or alone in a block
AssignmentOf(it) == IF it.k = "Block" THEN it.statements[1] ELSE it
IsAssignment(it) ==
    /\ \/ it.k = "Assignment"
       \/ it.k = "Block" /\ Len(it.statements) = 1 /\ it.statements[1].k = "Assignment"
    /\ AssignmentOf(it).target.k = "Identifier"

\* C2: no step changes a Symbol whose is_mutable is false (function and struct
\* declarations, the null sentinel), and every attempt on one, by a call of
\* assign from any scope or by an Assignment statement, fails.
C2_ImmutableKept ==
    [][ /\ \A s \in 1..Len(syms) : ~syms[s].is_mutable => syms'[s] = syms[s]
        /\ (item'.k = "assign" /\ AssignsImmutable(item'.env, item'.name))
              => last'.sig = "raise"
        /\ (IsAssignment(item') /\ AssignsImmutable(env, AssignmentOf(item').target.name))
              => last'.sig = "raise"
      ]_vars

\* assign was called from a scope below the root on a name that an ancestor
\* binds to an immutable Symbol, and failed
C2_Witness ==
    /\ item.k = "assign"
    /\ AssignsImmutable(item.env, item.name)
    /\ lookup([syms |-> syms, envs |-> envs], item.env, item.name) # item.env
    /\ last.sig = "raise" /\ last.msg = "Immutable"

-----------------------------------------------------------------------------
(* What an operand expression denotes in the language: the value of a      *)
(* literal, or the value a bound name stands for, behind however many      *)
(* Symbols the evaluator has wrapped around it.                            *)

RECURSIVE Behind(_)
Behind(v) == IF v.t = "sym" THEN Behind(syms[v.id].value) ELSE v

Undef == [t |-> "undef"]
Denotes(expr) ==
    CASE expr.k = "Literal" -> expr.value
      [] expr.k = "UnaryOp" /\ expr.op = "-" /\ expr.expr.k = "Literal" /\ expr.expr.value.t = "int"
            -> IntV(-expr.expr.value.n)
      [] expr.k = "ArrayLiteral" -> ListV(expr.elements)
      [] expr.k = "Identifier" ->
            IF RootRef(expr.name) = null THEN Undef ELSE Behind(SymRef(RootRef(expr.name)))
      [] OTHER -> Undef
LenOf(v) == IF v.t = "list" THEN Len(v.els) ELSE Len(v.s)

\* the last item was the expression statement  x[i];  on an array or string x
\* and an integer i
IndexedByInt ==
    /\ item.k = "ExprStmt" /\ item.expr.k = "IndexAccess"
    /\ Denotes(item.expr.array).t \in {"list", "str"}
    /\ Denotes(item.expr.index).t = "int"
IndexInBounds ==
    /\ 0 <= Denotes(item.expr.index).n
    /\ Denotes(item.expr.index).n < LenOf(Denotes(item.expr.array))

-----------------------------------------------------------------------------
(* C3 *)

\* the last item was  name(args);  with name bound by a function declaration
\* that has as many parameters as the call has arguments
CallsDeclaredName ==
    /\ item.k = "ExprStmt" /\ item.expr.k = "FunctionCall" /\ item.expr.func.k = "Identifier"
    /\ RootRef(item.expr.func.name) # null
    /\ LET fn == syms[RootRef(item.expr.func.name)].value IN
       /\ fn.t = "fn"
       /\ fn.decl.parameters.some
       /\ Len(fn.decl.parameters.v) = Len(item.expr.args)

\* C3: calling a name bound by a function declaration, with matching arity,
\* does not fail NotCallable: the body runs in a new scope whose parent is the
\* scope captured at the declaration.
C3_DeclaredNameCallable ==
    CallsDeclaredName =>
        /\ ~(last.sig = "raise" /\ last.msg = "NotCallable")
        /\ \E i \in Events :
              /\ IsScope(i) /\ log[i].kind = "call"
              /\ envs[log[i].inside].parent = syms[RootRef(item.expr.func.name)].value.outer

-----------------------------------------------------------------------------
(* C4 *)

\* C4: an Assignment to a bare identifier behaves as env.assign(name, value):
\* a mutable binding then holds the assigned value, an immutable binding or
\* an unbound name makes the statement fail.
C4_AssignmentAssigns ==
    (item.k = "Assignment" /\ item.target.k = "Identifier" /\ item.expr.k = "Literal") =>
        LET s == RootRef(item.target.name) IN
        IF s # null /\ syms[s].is_mutable
        THEN last.sig = "ok" /\ syms[s].value = item.expr.value
        ELSE last.sig = "raise"

-----------------------------------------------------------------------------
(* C5 *)

\* the last item was a struct literal naming a type that a struct declaration
\* has bound (the only immutable Symbols that hold a list)
LiteralOfDeclaredStruct ==
    /\ item.k = "ExprStmt" /\ item.expr.k = "StructLiteral"
    /\ RootRef(item.expr.type_name) # null
    /\ ~syms[RootRef(item.expr.type_name)].is_mutable
    /\ syms[RootRef(item.expr.type_name)].value.t = "list"
DeclaredFields ==
    LET fields == syms[RootRef(item.expr.type_name)].value.els
    IN {fields[i].s[1] : i \in 1..Len(fields)}
AssignedFields == {item.expr.fields[i].name : i \in 1..Len(item.expr.fields)}

\* C5: a struct literal of a declared type is accepted if and only if the set
\* of field names it assigns equals the declared field set.
C5_LiteralAcceptedIffFieldsMatch ==
    LiteralOfDeclaredStruct => (last.sig = "ok" <=> AssignedFields = DeclaredFields)

-----------------------------------------------------------------------------
(* C6 *)

\* C6: x[i] with x an array or string and 0 <= i < len(x) does not fail,
\* whether x and i are literals or identifiers bound to those values.
C6_IndexInBoundsSucceeds ==
    (IndexedByInt /\ IndexInBounds) => last.sig = "ok"

-----------------------------------------------------------------------------
(* C7 *)

\* C7: x[i] with i < 0 or i >= len(x) fails with an index error and yields
\* no element.
C7_IndexOutOfBoundsFails ==
    (IndexedByInt /\ ~IndexInBounds) => (last.sig = "raise" /\ last.exc = "IndexError")

-----------------------------------------------------------------------------
(* C8 *)

\* the last item was  l / r;  where r is zero, written as a literal or as a
\* name that stands for zero
DividesByZero ==
    /\ item.k = "ExprStmt" /\ item.expr.k = "BinaryOp" /\ item.expr.op = "/"
    /\ Denotes(item.expr.left) # Undef
    /\ IsNum(Denotes(item.expr.right)) /\ NumOf(Denotes(item.expr.right)) = 0

\* C8: '/' with a right operand equal to zero, given directly or through a
\* bound identifier, fails with a division-by-zero error for every left operand.
C8_DivisionByZeroFails ==
    DividesByZero => (last.sig = "raise" /\ last.exc = "ZeroDivisionError")

-----------------------------------------------------------------------------
(* C9 *)

IsReturn(i) == log[i].e = "return"
\* the return raised at event i ends at event j, in the function call that
\* was innermost when it was raised: nothing but blocks and loops being left
\* lies between, and the call then yields the returned value
CaughtAt(i, j) ==
    /\ j > i
    /\ log[j].e = "caught" /\ log[j].by = "interpreted_function"
    /\ log[j].depth = log[i].depth /\ log[j].val = log[i].val
    /\ \A m \in (i + 1)..(j - 1) : IsScope(m) /\ log[m].kind # "call"
    /\ j + 2 <= Len(log)
    /\ IsScope(j + 1) /\ log[j + 1].kind = "call" /\ log[j + 1].how = "ok"
    /\ log[j + 2].e = "call_value" /\ log[j + 2].val = log[i].val

\* C9: a return inside any nesting of blocks, loops and ifs abandons the rest
\* of all of them and becomes a value only at the innermost active function
\* call, which then completes normally with it; a return raised while no
\* call is active is ended by no construct and reaches the driver.
C9_ReturnToInnermostCall ==
    /\ \A i \in Events :
          IsReturn(i) =>
              IF log[i].depth > 0
              THEN \E j \in Events : CaughtAt(i, j)
              ELSE /\ \A m \in (i + 1)..Len(log) : IsScope(m) /\ log[m].kind # "call"
                   /\ last.sig = "return" /\ last.val = log[i].val
    /\ last.sig = "return" => \E i \in Events : IsReturn(i) /\ log[i].depth = 0
    /\ \A j \in Events : log[j].e = "caught" => log[j].by = "interpreted_function"

\* g was called after f was declared: the return inside f's nested blocks
\* and loops ended in the call of f (depth 2), g went on with its next
\* statements and its own return ended in the call of g
C9_Witness ==
    \E i, j, n, m \in Events :
        /\ IsReturn(i) /\ log[i].depth = 2 /\ CaughtAt(i, j)
        /\ \E b \in (i + 1)..(j - 1) : log[b].kind = "Block"
        /\ \E b \in (i + 1)..(j - 1) : log[b].kind = "ForStmt"
        /\ n > j /\ log[n].e = "stmt" /\ log[n].depth = 1
        /\ m > n /\ IsReturn(m) /\ log[m].depth = 1 /\ \E c \in Events : CaughtAt(m, c)
        /\ last.sig = "ok"

-----------------------------------------------------------------------------
(* C10 *)

\* C10: before any item is evaluated, the root environment binds print, len
\* and type to immutable callable Symbols.
C10_BuiltinsBound ==
    nItems = 0 =>
        \A name \in {"print", "len", "type"} :
            /\ name \in DOMAIN envs[global_env].symbols
            /\ ~syms[envs[global_env].symbols[name]].is_mutable
            /\ callable(syms[envs[global_env].symbols[name]].value)

-----------------------------------------------------------------------------
(* C11 *)

\* the step is a call define(name, symbol) with redefine false
IsDefine(it) == it.k = "define" /\ ~it.redefine

\* C11: define with redefine false fails with Redefinition exactly when the
\* name is already bound in the scope it is called on, and then changes
\* nothing; a binding of the name in an ancestor only does not make it fail
\* and is not modified: the new binding goes into the local scope alone.
C11_DefineLocalOnly ==
    [][ IsDefine(item') =>
          LET e == item'.env
              name == item'.name
          IN /\ (last'.sig = "raise") <=> (name \in DOMAIN envs[e].symbols)
             /\ last'.sig = "raise" => /\ last'.msg = "Redefinition"
                                       /\ envs' = envs
             /\ last'.sig = "ok" =>
                   /\ envs'[e].symbols[name] = item'.symbol
                   /\ envs'[e].parent = envs[e].parent
                   /\ \A n \in DOMAIN envs[e].symbols : envs'[e].symbols[n] = envs[e].symbols[n]
                   /\ \A o \in 1..Len(envs) : o # e => envs'[o] = envs[o]
             /\ \A s \in 1..Len(syms) : syms'[s] = syms[s]
      ]_vars

\* define was called on a scope below the root with a name that only an
\* ancestor binds: it succeeded, the name is now bound in both scopes, to
\* different Symbols
C11_Witness ==
    /\ IsDefine(item) /\ last.sig = "ok"
    /\ item.env # global_env
    /\ lookup([syms |-> syms, envs |-> envs], envs[item.env].parent, item.name) # 0
    /\ envs[item.env].symbols[item.name] = item.symbol
    /\ ref([syms |-> syms, envs |-> envs], envs[item.env].parent, item.name) # item.symbol

-----------------------------------------------------------------------------
(* C12 *)

RECURSIVE Held(_, _)
\* the value a holder of v finds in it, given the heap of Symbols: what the
\* Symbols that v refers to hold, all the way down
Held(heap, v) ==
    IF v.t = "sym" THEN Held(heap, heap[v.id].value)
    ELSE IF v.t = "list" THEN ListV([i \in 1..Len(v.els) |-> Held(heap, v.els[i])])
    ELSE v

\* C12: assign(name, value) changes only the binding of name in the nearest
\* scope of the chain that binds it; a shadowed binding of the name farther
\* up and every other binding in every scope hold what they held before; if
\* no scope in the chain binds name it fails Undefined and binds nothing.
C12_AssignFrame ==
    [][ item'.k = "assign" =>
          LET st == [syms |-> syms, envs |-> envs]
              found == lookup(st, item'.env, item'.name)
          IN /\ envs' = envs
             /\ found = 0 => /\ last'.sig = "raise" /\ last'.msg = "Undefined"
                             /\ syms' = syms
             /\ found # 0 =>
                   \A o \in 1..Len(envs) : \A n \in DOMAIN envs[o].symbols :
                       (o # found \/ n # item'.name) =>
                           /\ syms'[envs[o].symbols[n]] = syms[envs[o].symbols[n]]
                           /\ Held(syms', SymRef(envs[o].symbols[n]))
                                 = Held(syms, SymRef(envs[o].symbols[n]))
      ]_vars

-----------------------------------------------------------------------------
(* C13 *)

RECURSIVE BalancedFrom(_, _, _, _)
\* the text from character i on is balanced, given the openers still open
\* and whether i lies inside a string literal: every opener outside string
\* literals is closed by its matching closer in nesting order, and no string
\* literal, as the lexer delimits it, is left unterminated (inside a string
\* a backslash takes the next character with it)
BalancedFrom(code, i, open, in_string) ==
    IF i > Len(code) THEN open = <<>> /\ ~in_string
    ELSE IF in_string
    THEN IF code[i] = Backslash THEN BalancedFrom(code, i + 2, open, TRUE)
         ELSE BalancedFrom(code, i + 1, open, code[i] # Quote)
    ELSE IF code[i] = Quote THEN BalancedFrom(code, i + 1, open, TRUE)
    ELSE IF code[i] \in opening THEN BalancedFrom(code, i + 1, Append(open, code[i]), FALSE)
    ELSE IF code[i] \in closing
    THEN /\ open # <<>>
         /\ pairs[open[Len(open)]] = code[i]
         /\ BalancedFrom(code, i + 1, SubSeq(open, 1, Len(open) - 1), FALSE)
    ELSE BalancedFrom(code, i + 1, open, FALSE)
Balanced(code) == BalancedFrom(code, 1, <<>>, FALSE)

\* C13: after each line read (other than exit()), the accumulated buffer is
\* evaluated in that loop iteration if and only if it is balanced; otherwise
\* the buffer is kept and the REPL asks for a continuation line.
C13_EvaluatedIffBalanced ==
    [][ (repl'.is_active /\ repl'.line # ExitLine /\ repl' # repl) =>
          LET buffer == repl.code \o repl'.line \o <<Newline>> IN
          /\ repl'.evaluated <=> Balanced(buffer)
          /\ ~repl'.evaluated => repl'.code = buffer /\ repl'.awaiting_more_input
      ]_vars

-----------------------------------------------------------------------------
(* C19 *)

\* some further input, none of it exit(), makes the REPL judge the buffer
\* complete; the buffer then is evaluated and the REPL returns to the primary
\* prompt with an empty buffer.  The further lines are one text with line
\* breaks in it; a buffer is completed, if at all, by at most one character
\* for each character it holds.
Completable(code) ==
    \E more \in UNION {[1..k -> Chars \cup {Newline}] : k \in 0..Len(code)} :
        LET r == read_input([repl EXCEPT !.code = code], more) IN
        /\ ~r.awaiting_more_input
        /\ code_evaluated(r).code = <<>>

\* C19: whenever the REPL is waiting for a continuation line, some finite
\* sequence of further lines gets the buffer evaluated: no input leaves the
\* REPL in continuation mode for good.
C19_ContinuationEnds ==
    (repl.is_active /\ repl.awaiting_more_input) => Completable(repl.code)

-----------------------------------------------------------------------------
(* C14 *)

\* the last item was  t[i] = v;  with t a mutable variable holding an array,
\* i a literal index inside it and v a literal
AssignsElement(it) ==
    /\ it.k = "Assignment" /\ it.target.k = "IndexAccess"
    /\ it.target.array.k = "Identifier" /\ it.target.index.k = "Literal"
    /\ it.expr.k = "Literal"
    /\ RootRef(it.target.array.name) # null
    /\ syms[RootRef(it.target.array.name)].is_mutable
    /\ Denotes(it.target.array).t = "list"
    /\ it.target.index.value.n \in 0..(LenOf(Denotes(it.target.array)) - 1)

\* C14: after  t[i] = v  on a mutable variable holding an array, every
\* binding that holds the same array reads v at i and what it read before at
\* the other indices.
C14_ElementAssignmentVisible ==
    [][ AssignsElement(item') =>
          LET target == RootRef(item'.target.array.name)
              i == item'.target.index.value.n + 1
          IN /\ last'.sig = "ok"
             /\ \A n \in DOMAIN envs[global_env].symbols :
                   LET s == SymRef(envs[global_env].symbols[n]) IN
                   Held(syms, s) = Held(syms, SymRef(target)) =>
                       /\ Held(syms', s).els[i] = item'.expr.value
                       /\ \A j \in 1..Len(Held(syms, s).els) :
                             j # i => Held(syms', s).els[j] = Held(syms, s).els[j]
      ]_vars

-----------------------------------------------------------------------------
(* C15 *)

\* falsy under the glossary: false, null, 0, 0.0, the empty string, the
\* empty array
Falsy(v) ==
    \/ v.t = "none"
    \/ v.t = "bool" /\ ~v.b
    \/ v.t = "int" /\ v.n = 0
    \/ v.t = "float" /\ v.num = 0
    \/ v.t = "str" /\ v.s = <<>>
    \/ v.t = "list" /\ v.els = <<>>
\* the condition is falsy: the literal false, or a literal or a bound name
\* that denotes a falsy value
FalsyCondition(c) == c = FalseLit \/ Falsy(Denotes(c))
Decidable(c) == c.k \in {"Literal", "ArrayLiteral"} \/ (c.k = "Identifier" /\ Denotes(c) # Undef)
\* the branches whose condition is truthy
Matches(it) == {k \in 1..Len(it.branches) : ~FalsyCondition(it.branches[k][1])}
FirstMatch(it) == CHOOSE k \in Matches(it) : \A m \in Matches(it) : k <= m
\* the last item was an if statement whose blocks each return a literal and
\* whose conditions are literals or bound names, up to the first truthy one
IfOfReturns ==
    /\ item.k = "IfStmt"
    /\ \A k \in 1..Len(item.branches) :
          (Matches(item) = {} \/ k <= FirstMatch(item)) => Decidable(item.branches[k][1])
Returned(block) == block.statements[1].value.v.value

\* C15: an if statement runs the block of the first branch whose condition is
\* truthy under the glossary and no other; it evaluates no condition after
\* that branch (here: makes no call); the else block runs only if every
\* condition is falsy.
C15_FirstTruthyBranch ==
    IfOfReturns =>
        IF Matches(item) # {}
        THEN /\ last.sig = "return"
             /\ last.val = Returned(item.branches[FirstMatch(item)][2])
             /\ \A i \in Events : ~(IsScope(i) /\ log[i].kind = "call")
        ELSE IF item.else_block.some
        THEN last.sig = "return" /\ last.val = Returned(item.else_block.v)
        ELSE last.sig = "ok"

-----------------------------------------------------------------------------
(* C16 *)

\* the elements a for statement is to go through, when its iterable is a
\* string literal, an array of literals or a name bound to an array or string
Iterated(it) ==
    IF it.iterable.k = "ArrayLiteral"
    THEN [k \in 1..Len(it.iterable.elements) |-> it.iterable.elements[k].value]
    ELSE Elements(Denotes(it.iterable))
ForOverKnown(it) ==
    /\ it.k = "ForStmt"
    /\ \/ it.iterable.k = "ArrayLiteral"
          /\ \A k \in 1..Len(it.iterable.elements) : it.iterable.elements[k].k = "Literal"
       \/ it.iterable.k \in {"Literal", "Identifier"} /\ Denotes(it.iterable).t \in {"list", "str"}
\* the iterations the loop whose scope is s has made, in order
Iterations(events, s) ==
    SelectSeq(events, LAMBDA ev : ev.e = "iteration" /\ ev.scope = s)

-----------------------------------------------------------------------------
(* C17 *)

\* C17: every Symbol whose kind is "null" holds null and is immutable.
C17_NullKindImmutable ==
    \A s \in 1..Len(syms) :
        syms[s].kind = "null" => (syms[s].value = NoneV /\ ~syms[s].is_mutable)

-----------------------------------------------------------------------------
(* C18 *)

\* C18: after a function declaration the name is bound in the current scope
\* to an immutable Symbol of kind "function"; after a struct declaration, to
\* an immutable Symbol of kind "struct_type" whose value is the ordered list
\* of the declared field names.
C18_DeclarationKinds ==
    /\ (item.k = "FunctionDecl" /\ last.sig = "ok") =>
          /\ item.name \in DOMAIN envs[env].symbols
          /\ ~syms[envs[env].symbols[item.name]].is_mutable
          /\ syms[envs[env].symbols[item.name]].kind = "function"
    /\ (item.k = "StructDecl" /\ last.sig = "ok") =>
          /\ item.name \in DOMAIN envs[env].symbols
          /\ ~syms[envs[env].symbols[item.name]].is_mutable
          /\ syms[envs[env].symbols[item.name]].kind = "struct_type"
          /\ syms[envs[env].symbols[item.name]].value = ListV(NameList(item.fields))

====
